---- MODULE Spec2Model ----
(***************************************************************************)
(* The MQTT connection layer of hubapi-go: MqttClient (pkg/hubclient and   *)
(* internal/mqttclient), a wrapper around the paho MQTT client that keeps  *)
(* a map of subscriptions and replays it on every (re)connection.          *)
(*                                                                         *)
(* One MqttClient instance is modelled together with the paho client it    *)
(* owns (connection status, message router) and the broker's view of the   *)
(* client's session (its broker-side subscriptions).                       *)
(***************************************************************************)
EXTENDS Integers, FiniteSets, Sequences, TLC

\* ------------------------------------------------------------- bounds
\* Subscriptions one hub client holds at a time.
MaxHubSubs == 2
\* Longest wait (seconds) handed to RequestProvisioning.
MaxWaitSec == 3
\* Calls into the client one run of a message handler makes.
MaxHandlerCalls == 2
\* Largest timeout (seconds) handed to NewMqttClient / SetTimeout.
MaxTimeoutSec == 3
\* Failed handshakes explored in one Connect call when nothing else stops
\* the retry loop (timeout = 0 retries for ever).
MaxAttempts == 123

\* ---------------------------------------------------- program constants
DefaultTimeoutSec == 3
MaxRetryDelaySec == 120

\* ------------------------------------------------------- inputs, values
\* Topics messages are published on, and the patterns the application
\* subscribes to: one exact topic and the multi-level wildcard.
Topics == {"a", "b"}
Patterns == {"a", "#"}
Handlers == {"h1", "h2"}

\* MQTT topic matching as the broker and the paho router apply it.
Matches(pattern, topic) == pattern = "#" \/ pattern = topic

\* Values of a map entry of mqttClient.subscriptions: the key is absent, the
\* key maps to a nil *TopicSubscription, or to a subscription with a handler.
Absent == "absent"
NilSub == "nil"
\* Values of a route of the paho router: no route, a closure that holds the
\* handler itself (Subscribe), or a closure over the loop variable of
\* resubscribe.
NoRoute == "none"
LoopVarRoute == "loopvar"

VARIABLES
    timeout,          \* mqttClient.timeout
    timeoutSec,       \* the timeout the client was configured with
    isRunning,        \* mqttClient.isRunning
    pahoClient,       \* mqttClient.pahoClient: "nil" or "client"
    subscriptions,    \* mqttClient.subscriptions: pattern -> Absent | NilSub | handler
    connStatus,       \* paho status of the current client
    onConnectPending, \* an OnConnect callback has been started and has not run yet
    routes,           \* paho router of the current client: pattern -> route
    loopVar,          \* the subscription the range variable of the last replay was left at
    brokerSubs,       \* patterns the broker holds for the client's session
    pahoStore,        \* topics of publishes paho has stored for sending after reconnect
    connPc,           \* "idle", or "loop" while Connect is in its retry loop
    retryDelaySec,    \* Connect's local
    retryDuration,    \* Connect's local
    err,              \* Connect's local: "nil" or "error"
    failures,         \* failed handshakes of the running Connect call
    crashed,          \* the process died of a nil dereference
    app,              \* what the application asked for: pattern -> [h, when], when:
                      \* "offline" | "online" (at Subscribe) | "prior" (to a re-Connect)
    retired,          \* handler -> "no" | "unsubscribed" | "replaced"
    connVia,          \* how the present connection came about: "none" | "connect" | "auto"
    leaked,           \* a paho client Connect has dropped is still connected or reconnecting
    updateMutex,      \* mqttClient.updateMutex: "free" or the goroutine that holds it
    goPc,             \* where each goroutine stands in the call it is making
    handlerCalls,     \* calls into the client the running handler has made
    hubSubs,          \* MqttHubClient: the subscriptions made through the hub client
    wire,             \* the message published last and not yet delivered
    hubOut,           \* what the last step of the hub client did
    prov,             \* the RequestProvisioning call of the hub client
    out               \* what the last step did, as its caller or an observer sees it

vars == <<timeout, timeoutSec, isRunning, pahoClient, subscriptions, connStatus,
          onConnectPending, routes, loopVar, brokerSubs, pahoStore, connPc,
          retryDelaySec, retryDuration, err, failures, crashed, app, retired,
          connVia, leaked, updateMutex, goPc, handlerCalls, hubSubs, wire,
          hubOut, prov, out>>

cfgVars == <<timeout, timeoutSec>>
lockVars == <<updateMutex, goPc, handlerCalls>>
hubVars == <<hubSubs, wire, hubOut, prov>>
connVars == <<connPc, retryDelaySec, retryDuration, err, failures>>
ghostVars == <<app, retired>>

NoReg == [h |-> "none", when |-> "none"]
ZeroCalls == [h \in Handlers |-> 0]

\* The goroutines that call into one client: the application's, the one paho
\* runs the OnConnect callback on, and the one paho's router calls the
\* message callbacks on.
Goroutines == {"app", "onconnect", "router"}

\* No message is under way; no step of the hub client has been made.
NoWire == [topic |-> << >>]
NoHubOut == [op |-> "none"]

\* No RequestProvisioning has been called.
NoProv ==
    [pc |-> "idle", waitSec |-> 0, elapsed |-> 0, certPEM |-> "nil",
     timeout |-> FALSE, done |-> 0, blocked |-> FALSE, routed |-> FALSE,
     published |-> "none", arrived |-> "none",
     result |-> [certPEM |-> "nil", timeout |-> FALSE]]

HubIdle ==
    /\ hubSubs = {}
    /\ wire = NoWire
    /\ hubOut = NoHubOut
    /\ prov = NoProv

\* ------------------------------------------------------------- paho
\* pahoClient.IsConnected(): with SetAutoReconnect(true) a client that lost
\* its connection and is reconnecting reports itself connected.
PahoIsConnected == connStatus \in {"connected", "reconnecting"}

\* The network connection of the current client is open: paho accepts
\* Subscribe and Unsubscribe only then (ResumeSubs is not set).
PahoOpen == pahoClient = "client" /\ connStatus = "connected"

\* ------------------------------------------------------- construction
NewMqttClient(sec) ==
    /\ timeoutSec = sec
    /\ timeout = (IF sec <= 0 THEN DefaultTimeoutSec ELSE sec)
    /\ isRunning = FALSE
    /\ pahoClient = "nil"
    /\ subscriptions = [p \in Patterns |-> Absent]

Init ==
    /\ \E sec \in 0..MaxTimeoutSec : NewMqttClient(sec)
    /\ connStatus = "disconnected"
    /\ onConnectPending = FALSE
    /\ routes = [p \in Patterns |-> NoRoute]
    /\ loopVar = NilSub
    /\ brokerSubs = {}
    /\ pahoStore = {}
    /\ connPc = "idle"
    /\ retryDelaySec = 0
    /\ retryDuration = 0
    /\ err = "nil"
    /\ failures = 0
    /\ crashed = FALSE
    /\ app = [p \in Patterns |-> NoReg]
    /\ retired = [h \in Handlers |-> "no"]
    /\ connVia = "none"
    /\ leaked = FALSE
    /\ updateMutex = "free"
    /\ goPc = [g \in Goroutines |-> "idle"]
    /\ handlerCalls = 0
    /\ HubIdle
    /\ out = [op |-> "NewMqttClient"]

\* SetTimeout (internal/mqttclient): "Must be invoked before the connect() call".
SetTimeout(sec) ==
    /\ ~crashed
    /\ connPc = "idle"
    /\ timeoutSec' = sec
    /\ timeout' = sec
    /\ out' = [op |-> "SetTimeout"]
    /\ UNCHANGED <<isRunning, pahoClient, subscriptions, connStatus,
                   onConnectPending, routes, loopVar, brokerSubs, pahoStore,
                   connVars, crashed, ghostVars, connVia, leaked, lockVars,
                   hubVars>>

\* ------------------------------------------------------------ Connect
\* Connect up to its retry loop: an existing client that reports itself
\* connected is disconnected, a new paho client (with an empty router) takes
\* its place, isRunning is set and the loop's locals are initialised.
LoopVars ==
    /\ retryDelaySec' = 1
    /\ retryDuration' = 0
    /\ err' = "nil"
    /\ failures' = 0

\* The client Connect finds is connected to the broker or reconnecting to it.
LiveClient == pahoClient = "client" /\ connStatus # "disconnected"

\* "close existing connection": the client Connect finds is disconnected when
\* there is one and it reports itself connected.
ConnectDisconnectsOld == pahoClient = "client" /\ PahoIsConnected

\* The application's entries as they stand when Connect replaces a live
\* client: registered before the new connection.
PriorApp ==
    [p \in Patterns |->
        IF app[p].h = "none" THEN app[p] ELSE [h |-> app[p].h, when |-> "prior"]]

ConnectStart ==
    /\ ~crashed
    /\ connPc = "idle"
    /\ leaked' = (leaked \/ (LiveClient /\ ~ConnectDisconnectsOld))
    /\ app' = (IF LiveClient THEN PriorApp ELSE app)
    /\ pahoClient' = "client"
    /\ connStatus' = "disconnected"
    /\ routes' = [p \in Patterns |-> NoRoute]
    /\ brokerSubs' = {}
    /\ pahoStore' = {}
    /\ isRunning' = TRUE
    /\ LoopVars
    /\ connPc' = "loop"
    /\ connVia' = "none"
    /\ out' = [op |-> "ConnectStart", previous |-> connStatus,
               disconnected |-> ConnectDisconnectsOld]
    /\ UNCHANGED <<cfgVars, lockVars, hubVars, subscriptions, onConnectPending, loopVar, crashed,
                   retired>>

\* The condition of the retry loop.
LoopConditionNoZero == retryDuration < timeout

LoopCondition == timeout = 0 \/ retryDuration < timeout

\* What a failed handshake does to the loop's locals.
NextRetryDelayOffByOne(d) == IF d <= MaxRetryDelaySec THEN d + 1 ELSE d

NextRetryDelay(d) == IF d < MaxRetryDelaySec THEN d + 1 ELSE d

RetryBookkeepingNoWait ==
    /\ err' = "error"
    /\ retryDuration' = retryDuration
    /\ retryDelaySec' = NextRetryDelay(retryDelaySec)
    /\ failures' = failures + 1

RetryBookkeeping ==
    /\ err' = "error"
    /\ retryDuration' = retryDuration + 1 + retryDelaySec
    /\ retryDelaySec' = NextRetryDelay(retryDelaySec)
    /\ failures' = failures + 1

\* Locals of Connect are dead once it has returned.
LoopVarsDead ==
    /\ retryDelaySec' = 0
    /\ retryDuration' = 0
    /\ err' = "nil"
    /\ failures' = 0

\* One pass of the retry loop: pahoClient.Connect(), and on its failure the
\* sleep and the bookkeeping; on success the loop is left and Connect returns
\* nil. paho starts the OnConnect callback on a goroutine of its own.
\* The handle is read again on every pass, so a Close in between leaves nil.
ConnectAttempt(accepted) ==
    /\ ~crashed
    /\ connPc = "loop"
    /\ LoopCondition
    /\ failures < MaxAttempts
    /\ IF pahoClient = "nil"
       THEN /\ crashed' = TRUE
            /\ out' = [op |-> "ConnectAttempt", panic |-> TRUE]
            /\ UNCHANGED <<connStatus, onConnectPending, connVia, connVars>>
       ELSE IF accepted
       THEN /\ connStatus' = "connected"
            /\ onConnectPending' = TRUE
            /\ connVia' = "connect"
            /\ connPc' = "idle"
            /\ LoopVarsDead
            /\ out' = [op |-> "ConnectAttempt", panic |-> FALSE, accepted |-> TRUE,
                       before |-> retryDuration, k |-> failures,
                       returned |-> TRUE, result |-> "nil"]
            /\ UNCHANGED crashed
       ELSE /\ RetryBookkeeping
            /\ out' = [op |-> "ConnectAttempt", panic |-> FALSE, accepted |-> FALSE,
                       before |-> retryDuration, k |-> failures + 1,
                       delay |-> retryDelaySec, returned |-> FALSE]
            /\ UNCHANGED <<connStatus, onConnectPending, connVia, connPc, crashed>>
    /\ UNCHANGED <<cfgVars, lockVars, hubVars, leaked, isRunning, pahoClient, subscriptions, routes,
                   loopVar, brokerSubs, pahoStore, ghostVars>>

\* The loop condition fails: Connect returns err, the error of the last pass
\* (nil when there was no pass).
ConnectReturn ==
    /\ ~crashed
    /\ connPc = "loop"
    /\ ~LoopCondition
    /\ connPc' = "idle"
    /\ LoopVarsDead
    /\ out' = [op |-> "ConnectReturn", result |-> err, k |-> failures,
               waited |-> retryDuration]
    /\ UNCHANGED <<cfgVars, lockVars, hubVars, leaked, isRunning, pahoClient, subscriptions, connStatus,
                   onConnectPending, routes, loopVar, brokerSubs, pahoStore,
                   crashed, ghostVars, connVia>>

\* -------------------------------------------------------------- Close
\* With a handle: paho Disconnect (no reconnect follows), the handle is
\* cleared and the subscription map is replaced by an empty one. Without a
\* handle only isRunning is cleared.
CloseKeepsRegistry == subscriptions

CloseRegistry == [p \in Patterns |-> Absent]

\* The status pahoClient.Disconnect leaves the client in: it stops the
\* automatic reconnect as well.
CloseStatusKept == connStatus

CloseStatus == "disconnected"

Close ==
    /\ ~crashed
    /\ isRunning' = FALSE
    /\ IF pahoClient = "client"
       THEN /\ connStatus' = CloseStatus
            /\ pahoClient' = "nil"
            /\ subscriptions' = CloseRegistry
            /\ routes' = [p \in Patterns |-> NoRoute]
            /\ brokerSubs' = {}
            /\ pahoStore' = {}
            /\ connVia' = "none"
       ELSE UNCHANGED <<connStatus, pahoClient, subscriptions, routes,
                        brokerSubs, pahoStore, connVia>>
    /\ out' = [op |-> "Close", handle |-> pahoClient, status |-> connStatus,
               racing |-> (connPc = "loop")]
    /\ UNCHANGED <<cfgVars, lockVars, hubVars, leaked, onConnectPending, loopVar, connVars, crashed,
                   ghostVars>>

\* ------------------------------------------------------------ Publish
\* The guard of Publish: no handle, or the client does not report itself
\* connected.
PublishRefusedNilOnly == pahoClient = "nil"

PublishRefused == pahoClient = "nil" \/ ~PahoIsConnected

\* Past the guard the message goes to paho, which sends it when the
\* connection is open and stores it (qos 1) while it is reconnecting.
Publish(topic) ==
    /\ ~crashed
    /\ IF PublishRefused
       THEN /\ out' = [op |-> "Publish", topic |-> topic, result |-> "error",
                       handed |-> "none", handle |-> pahoClient,
                       status |-> connStatus]
            /\ UNCHANGED pahoStore
       ELSE IF connStatus = "connected"
       THEN /\ out' = [op |-> "Publish", topic |-> topic, result |-> "nil",
                       handed |-> "sent", handle |-> pahoClient,
                       status |-> connStatus]
            /\ UNCHANGED pahoStore
       ELSE /\ out' = [op |-> "Publish", topic |-> topic, result |-> "nil",
                       handed |-> "stored", handle |-> pahoClient,
                       status |-> connStatus]
            /\ pahoStore' = pahoStore \cup {topic}
    /\ UNCHANGED <<cfgVars, lockVars, hubVars, leaked, isRunning, pahoClient, subscriptions, connStatus,
                   onConnectPending, routes, loopVar, brokerSubs, connVars,
                   crashed, ghostVars, connVia>>

\* ----------------------------------------- the application's own view
\* What the application has asked for, whatever the client did with it:
\* Subscribe registers h under p, Unsubscribe removes p. A handler is retired
\* once no pattern of the application names it any more.
AppHandlers(a) == {a[p].h : p \in Patterns} \ {"none"}

Retire(newApp, old, how) ==
    [h \in Handlers |->
        IF h \in AppHandlers(newApp) THEN "no"
        ELSE IF h = old THEN how
        ELSE retired[h]]

\* ---------------------------------------------------------- Subscribe
\* With a handle the pattern is subscribed at paho with a closure that holds
\* the handler (paho takes it only on an open connection, and its router
\* keeps one callback per topic: a second one replaces the first). In every
\* case the map entry of the pattern is overwritten.
SubscribeEntry(old, handler) == handler

\* The callback paho's router holds for the topic after Subscribe.
SubscribeRouteKeepsFirst(old, handler) == IF old = NoRoute THEN handler ELSE old

SubscribeRoute(old, handler) == handler

Subscribe(topic, handler) ==
    /\ ~crashed
    /\ IF PahoOpen
       THEN /\ routes' = [routes EXCEPT
                              ![topic] = SubscribeRoute(routes[topic], handler)]
            /\ brokerSubs' = brokerSubs \cup {topic}
       ELSE UNCHANGED <<routes, brokerSubs>>
    /\ subscriptions' = [subscriptions EXCEPT
                            ![topic] = SubscribeEntry(subscriptions[topic], handler)]
    /\ app' = [app EXCEPT ![topic] =
                  [h |-> handler, when |-> IF PahoOpen THEN "online" ELSE "offline"]]
    /\ retired' = Retire(app', app[topic].h, "replaced")
    /\ out' = [op |-> "Subscribe", topic |-> topic, handler |-> handler,
               open |-> PahoOpen, over |-> app[topic].h]
    /\ UNCHANGED <<cfgVars, lockVars, hubVars, leaked, isRunning, pahoClient, connStatus, onConnectPending,
                   loopVar, pahoStore, connVars, crashed, connVia>>

\* -------------------------------------------------------- Unsubscribe
\* Nothing happens without a (non-nil) map entry, and nothing without a
\* handle; with both the pattern is unsubscribed at paho (taken only on an open
\* connection) and the map entry is set to nil: the key stays in the map.
UnsubscribeActsAlways(topic) == pahoClient = "client"

UnsubscribeActs(topic) ==
    /\ subscriptions[topic] \notin {Absent, NilSub}
    /\ pahoClient = "client"

Unsubscribe(topic) ==
    /\ ~crashed
    /\ IF UnsubscribeActs(topic)
       THEN /\ subscriptions' = [subscriptions EXCEPT ![topic] = NilSub]
            /\ IF PahoOpen
               THEN /\ routes' = [routes EXCEPT ![topic] = NoRoute]
                    /\ brokerSubs' = brokerSubs \ {topic}
               ELSE UNCHANGED <<routes, brokerSubs>>
       ELSE UNCHANGED <<subscriptions, routes, brokerSubs>>
    /\ app' = [app EXCEPT ![topic] = NoReg]
    /\ retired' = Retire(app', app[topic].h, "unsubscribed")
    /\ out' = [op |-> "Unsubscribe", topic |-> topic,
               entry |-> subscriptions[topic], handle |-> pahoClient]
    /\ UNCHANGED <<cfgVars, lockVars, hubVars, leaked, isRunning, pahoClient, connStatus, onConnectPending,
                   loopVar, pahoStore, connVars, crashed, connVia>>

\* -------------------------------------------------------- resubscribe
\* The keys of the subscription map, nil entries included.
MapKeys == {p \in Patterns : subscriptions[p] # Absent}

\* The subscription a replayed route calls: every closure of one replay
\* shares the range variable, which is left at the entry iterated last
\* (Go 1.14; the map is iterated in no fixed order).
ReplayBinding(last) == subscriptions[last]

\* The OnConnect callback: for every key of the map the pattern is
\* unsubscribed and subscribed again at paho, with a closure over the range
\* variable. The handle is dereferenced for every key.
resubscribe ==
    /\ ~crashed
    /\ onConnectPending
    /\ onConnectPending' = FALSE
    /\ IF MapKeys = {}
       THEN /\ out' = [op |-> "resubscribe", panic |-> FALSE, keys |-> MapKeys]
            /\ UNCHANGED <<routes, loopVar, brokerSubs, crashed>>
       ELSE IF pahoClient = "nil"
       THEN /\ crashed' = TRUE
            /\ out' = [op |-> "resubscribe", panic |-> TRUE, keys |-> MapKeys]
            /\ UNCHANGED <<routes, loopVar, brokerSubs>>
       ELSE IF PahoOpen
       THEN /\ \E last \in MapKeys : loopVar' = ReplayBinding(last)
            /\ routes' = [p \in Patterns |->
                            IF p \in MapKeys THEN LoopVarRoute ELSE routes[p]]
            /\ brokerSubs' = brokerSubs \cup MapKeys
            /\ out' = [op |-> "resubscribe", panic |-> FALSE, keys |-> MapKeys]
            /\ UNCHANGED crashed
       ELSE /\ out' = [op |-> "resubscribe", panic |-> FALSE, keys |-> {}]
            /\ UNCHANGED <<routes, loopVar, brokerSubs, crashed>>
    /\ UNCHANGED <<cfgVars, lockVars, hubVars, leaked, isRunning, pahoClient, subscriptions, connStatus,
                   pahoStore, connVars, ghostVars, connVia>>

\* ------------------------------------------- the transport's own steps
\* The connection drops: paho logs it (ConnectionLostHandler) and starts to
\* reconnect; with CleanSession the broker forgets the session's
\* subscriptions, the router of the client keeps its routes.
ConnectionLost ==
    /\ ~crashed
    /\ PahoOpen
    /\ connStatus' = "reconnecting"
    /\ brokerSubs' = {}
    /\ out' = [op |-> "ConnectionLost"]
    /\ UNCHANGED <<cfgVars, lockVars, hubVars, leaked, isRunning, pahoClient, subscriptions,
                   onConnectPending, routes, loopVar, pahoStore, connVars,
                   crashed, ghostVars, connVia>>

\* paho's automatic reconnect succeeds: stored publishes are sent and the
\* OnConnect callback is started.
Reconnect ==
    /\ ~crashed
    /\ pahoClient = "client"
    /\ connStatus = "reconnecting"
    /\ connStatus' = "connected"
    /\ onConnectPending' = TRUE
    /\ pahoStore' = {}
    /\ connVia' = "auto"
    /\ out' = [op |-> "Reconnect", sent |-> pahoStore]
    /\ UNCHANGED <<cfgVars, lockVars, hubVars, leaked, isRunning, pahoClient, subscriptions, routes,
                   loopVar, brokerSubs, connVars, crashed, ghostVars>>

\* ------------------------------------------------------------ delivery
\* The handler a route calls: "nil" for a closure whose range variable holds
\* a nil subscription.
RouteTarget(p) == IF routes[p] = LoopVarRoute THEN loopVar ELSE routes[p]

MatchingRoutes(topic) == {p \in Patterns : routes[p] # NoRoute /\ Matches(p, topic)}
MatchingSubs(topic) == {p \in brokerSubs : Matches(p, topic)}

\* How often each handler runs when the router dispatches `copies` copies of
\* a message on topic: every matching route is called for every copy.
Calls(topic, copies) ==
    [h \in Handlers |->
        copies * Cardinality({p \in MatchingRoutes(topic) : RouteTarget(p) = h})]

\* A matching route dereferences a nil subscription.
Panics(topic) == \E p \in MatchingRoutes(topic) : RouteTarget(p) = NilSub

\* A message on topic, published by any client, reaches this client: the
\* broker sends one copy, or one per matching subscription, and paho's router
\* calls the matching routes. A panic in a callback ends the process, before
\* or after the other callbacks have run.
Receive(topic, copies) ==
    /\ ~crashed
    /\ PahoOpen
    /\ MatchingSubs(topic) # {}
    /\ copies \in {1, Cardinality(MatchingSubs(topic))}
    /\ IF Panics(topic)
       THEN /\ crashed' = TRUE
            /\ \E c \in {ZeroCalls, Calls(topic, copies)} :
                 out' = [op |-> "Receive", topic |-> topic, copies |-> copies,
                         calls |-> c, panic |-> TRUE]
       ELSE /\ out' = [op |-> "Receive", topic |-> topic, copies |-> copies,
                       calls |-> Calls(topic, copies), panic |-> FALSE]
            /\ UNCHANGED crashed
    /\ UNCHANGED <<cfgVars, lockVars, hubVars, leaked, isRunning, pahoClient, subscriptions, connStatus,
                   onConnectPending, routes, loopVar, brokerSubs, pahoStore,
                   connVars, ghostVars, connVia>>

\* ------------------------------------------------------ specifications
Next ==
    \/ \E p \in Patterns, h \in Handlers : Subscribe(p, h)
    \/ \E p \in Patterns : Unsubscribe(p)
    \/ \E t \in Topics : Publish(t)
    \/ Close
    \/ ConnectStart
    \/ \E accepted \in BOOLEAN : ConnectAttempt(accepted)
    \/ ConnectReturn
    \/ resubscribe
    \/ ConnectionLost
    \/ Reconnect
    \/ \E t \in Topics, n \in 1..Cardinality(Patterns) : Receive(t, n)

Spec == Init /\ [][Next]_vars

\* Connect's retry loop on its own (no other goroutine calls into the client
\* while it runs), with the timeout set through SetTimeout (0: retry for
\* ever; negative values are not refused). The goroutine that runs Connect
\* keeps running.
TimeoutInputs == (-1)..MaxTimeoutSec

RetryNext ==
    \/ \E sec \in TimeoutInputs : SetTimeout(sec)
    \/ ConnectStart
    \/ \E accepted \in BOOLEAN : ConnectAttempt(accepted)
    \/ ConnectReturn

RetrySpec ==
    /\ Init
    /\ [][RetryNext]_vars
    /\ WF_vars(\E accepted \in BOOLEAN : ConnectAttempt(accepted))
    /\ WF_vars(ConnectReturn)

\* ----------------------------------------------- the lock of the client
\* The goroutines' steps through updateMutex, one call at a time each.
\* Subscribe and resubscribe hold the mutex from Lock to the deferred Unlock,
\* and the paho calls they make under it return without waiting; Close holds
\* it for isRunning only; Unsubscribe and Publish do not take it. paho calls
\* a message callback on its router goroutine, and the callbacks of Subscribe
\* and resubscribe take no lock around the handler.
clientVars == <<timeout, timeoutSec, isRunning, pahoClient, subscriptions,
                connStatus, onConnectPending, routes, loopVar, brokerSubs,
                pahoStore, connVars, crashed, app, retired, connVia, leaked, out>>

\* A connected client with one subscription: the state after NewMqttClient,
\* Connect, the (empty) replay and Subscribe("a", h1).
LockInit ==
    /\ timeoutSec = 0
    /\ timeout = DefaultTimeoutSec
    /\ isRunning = TRUE
    /\ pahoClient = "client"
    /\ subscriptions = [p \in Patterns |-> IF p = "a" THEN "h1" ELSE Absent]
    /\ connStatus = "connected"
    /\ onConnectPending = FALSE
    /\ routes = [p \in Patterns |-> IF p = "a" THEN "h1" ELSE NoRoute]
    /\ loopVar = NilSub
    /\ brokerSubs = {"a"}
    /\ pahoStore = {}
    /\ connPc = "idle"
    /\ retryDelaySec = 0
    /\ retryDuration = 0
    /\ err = "nil"
    /\ failures = 0
    /\ crashed = FALSE
    /\ app = [p \in Patterns |->
                IF p = "a" THEN [h |-> "h1", when |-> "online"] ELSE NoReg]
    /\ retired = [h \in Handlers |-> "no"]
    /\ connVia = "connect"
    /\ leaked = FALSE
    /\ updateMutex = "free"
    /\ goPc = [g \in Goroutines |-> "idle"]
    /\ handlerCalls = 0
    /\ HubIdle
    /\ out = [op |-> "Subscribe", topic |-> "a", handler |-> "h1",
              open |-> TRUE, over |-> "none"]

\* The goroutines that call Subscribe, Unsubscribe and Publish: the
\* application, and a handler on the router goroutine.
Callers == {"app", "router"}

\* Where a call returns to.
CallerPc(g) == IF g = "router" THEN "handler" ELSE "idle"

\* g is free to make a call.
CanCall(g) ==
    /\ goPc[g] = CallerPc(g)
    /\ g = "router" => handlerCalls < MaxHandlerCalls

Called(g) == IF g = "router" THEN handlerCalls + 1 ELSE handlerCalls

\* sync.Mutex is not reentrant: Lock waits until the mutex is free, whoever
\* holds it.
MutexLock(g) ==
    /\ updateMutex = "free"
    /\ updateMutex' = g

\* Subscribe: up to updateMutex.Lock(), the locked part, the deferred Unlock.
SubscribeCall(g) ==
    /\ CanCall(g)
    /\ goPc' = [goPc EXCEPT ![g] = "Subscribe:lock"]
    /\ handlerCalls' = Called(g)
    /\ UNCHANGED <<updateMutex, clientVars, hubVars>>

SubscribeLocked(g) ==
    /\ goPc[g] = "Subscribe:lock"
    /\ MutexLock(g)
    /\ goPc' = [goPc EXCEPT ![g] = "Subscribe:held"]
    /\ UNCHANGED <<handlerCalls, clientVars, hubVars>>

SubscribeUnlock(g) ==
    /\ goPc[g] = "Subscribe:held"
    /\ updateMutex' = "free"
    /\ goPc' = [goPc EXCEPT ![g] = CallerPc(g)]
    /\ UNCHANGED <<handlerCalls, clientVars, hubVars>>

\* Unsubscribe reads and writes the map without the mutex.
UnsubscribeCall(g) ==
    /\ CanCall(g)
    /\ goPc' = [goPc EXCEPT ![g] = "Unsubscribe:map"]
    /\ handlerCalls' = Called(g)
    /\ UNCHANGED <<updateMutex, clientVars, hubVars>>

UnsubscribeReturn(g) ==
    /\ goPc[g] = "Unsubscribe:map"
    /\ goPc' = [goPc EXCEPT ![g] = CallerPc(g)]
    /\ UNCHANGED <<updateMutex, handlerCalls, clientVars, hubVars>>

\* Publish hands the message to paho without the mutex and does not wait
\* for the token.
PublishCall(g) ==
    /\ CanCall(g)
    /\ goPc' = [goPc EXCEPT ![g] = "Publish:paho"]
    /\ handlerCalls' = Called(g)
    /\ UNCHANGED <<updateMutex, clientVars, hubVars>>

PublishReturn(g) ==
    /\ goPc[g] = "Publish:paho"
    /\ goPc' = [goPc EXCEPT ![g] = CallerPc(g)]
    /\ UNCHANGED <<updateMutex, handlerCalls, clientVars, hubVars>>

\* Close takes the mutex for isRunning, releases it, then disconnects and
\* replaces the map.
CloseCall ==
    /\ goPc["app"] = "idle"
    /\ goPc' = [goPc EXCEPT !["app"] = "Close:lock"]
    /\ UNCHANGED <<updateMutex, handlerCalls, clientVars, hubVars>>

CloseLocked ==
    /\ goPc["app"] = "Close:lock"
    /\ MutexLock("app")
    /\ goPc' = [goPc EXCEPT !["app"] = "Close:held"]
    /\ UNCHANGED <<handlerCalls, clientVars, hubVars>>

CloseUnlock ==
    /\ goPc["app"] = "Close:held"
    /\ updateMutex' = "free"
    /\ goPc' = [goPc EXCEPT !["app"] = "Close:map"]
    /\ UNCHANGED <<handlerCalls, clientVars, hubVars>>

CloseReturn ==
    /\ goPc["app"] = "Close:map"
    /\ goPc' = [goPc EXCEPT !["app"] = "idle"]
    /\ UNCHANGED <<updateMutex, handlerCalls, clientVars, hubVars>>

\* paho starts the OnConnect callback, which runs resubscribe: the whole
\* replay is made under the mutex.
OnConnect ==
    /\ goPc["onconnect"] = "idle"
    /\ goPc' = [goPc EXCEPT !["onconnect"] = "resubscribe:lock"]
    /\ UNCHANGED <<updateMutex, handlerCalls, clientVars, hubVars>>

ResubscribeLocked ==
    /\ goPc["onconnect"] = "resubscribe:lock"
    /\ MutexLock("onconnect")
    /\ goPc' = [goPc EXCEPT !["onconnect"] = "resubscribe:held"]
    /\ UNCHANGED <<handlerCalls, clientVars, hubVars>>

ResubscribeUnlock ==
    /\ goPc["onconnect"] = "resubscribe:held"
    /\ updateMutex' = "free"
    /\ goPc' = [goPc EXCEPT !["onconnect"] = "idle"]
    /\ UNCHANGED <<handlerCalls, clientVars, hubVars>>

\* The mutex as the callback of a route leaves it when it calls the handler:
\* the callback takes no lock.
DispatchMutexHeld == "router"

DispatchMutex == updateMutex

\* paho's router calls the callback of a matching route, which calls the
\* handler; the handler makes its calls and returns.
Dispatch ==
    /\ goPc["router"] = "idle"
    /\ goPc' = [goPc EXCEPT !["router"] = "handler"]
    /\ handlerCalls' = 0
    /\ updateMutex' = DispatchMutex
    /\ UNCHANGED <<clientVars, hubVars>>

HandlerReturn ==
    /\ goPc["router"] = "handler"
    /\ goPc' = [goPc EXCEPT !["router"] = "idle"]
    /\ UNCHANGED <<updateMutex, handlerCalls, clientVars, hubVars>>

LockNext ==
    \/ \E g \in Callers : SubscribeCall(g)
    \/ \E g \in Callers : SubscribeLocked(g)
    \/ \E g \in Callers : SubscribeUnlock(g)
    \/ \E g \in Callers : UnsubscribeCall(g)
    \/ \E g \in Callers : UnsubscribeReturn(g)
    \/ \E g \in Callers : PublishCall(g)
    \/ \E g \in Callers : PublishReturn(g)
    \/ CloseCall
    \/ CloseLocked
    \/ CloseUnlock
    \/ CloseReturn
    \/ OnConnect
    \/ ResubscribeLocked
    \/ ResubscribeUnlock
    \/ Dispatch
    \/ HandlerReturn

\* Every goroutine keeps running (a step that stays possible is taken), and
\* a goroutine waiting in Lock gets the mutex when it is released again and
\* again: sync.Mutex hands the mutex to a starving waiter.
LockFairness ==
    /\ \A g \in Callers :
          /\ SF_vars(SubscribeLocked(g))
          /\ WF_vars(SubscribeUnlock(g))
          /\ WF_vars(UnsubscribeReturn(g))
          /\ WF_vars(PublishReturn(g))
    /\ SF_vars(CloseLocked)
    /\ WF_vars(CloseUnlock)
    /\ WF_vars(CloseReturn)
    /\ SF_vars(ResubscribeLocked)
    /\ WF_vars(ResubscribeUnlock)
    /\ WF_vars(HandlerReturn)

LockSpec == LockInit /\ [][LockNext]_vars /\ LockFairness

\* ------------------------------------------------------ the hub client
\* MqttHubClient on a connected MqttClient. Strings that become topics are
\* kept as the sequence of their parts between "/": a thing ID is a sequence
\* of one part, or of more when the ID itself holds a "/".
TopicRoot == "things"
MessageTypes == {"action", "config", "event", "td", "values"}

\* TopicThingTD .. TopicAction: TopicRoot + "/{id}/" + message type.
TopicTemplate(msgType) == <<TopicRoot, "{id}", msgType>>

\* strings.ReplaceAll(template, "{id}", thingID)
ReplaceAll(template, thingID) ==
    <<template[1]>> \o thingID \o <<template[3]>>

\* The thing IDs published under ("zone/thing1" holds a "/"), and the ones
\* subscribed to: these, "" and the single-level wildcard.
ThingIDs == {<<"thing1">>, <<"zone", "thing1">>}
SubscribeIDs == ThingIDs \cup {<<"">>, <<"+">>}

\* The broker's topic matching: "+" matches one part, a closing "#" the rest.
RECURSIVE TopicMatches(_, _)
TopicMatches(pattern, topic) ==
    IF pattern = << >> THEN topic = << >>
    ELSE IF Head(pattern) = "#" THEN TRUE
    ELSE IF topic = << >> THEN FALSE
    ELSE /\ Head(pattern) = "+" \/ Head(pattern) = Head(topic)
         /\ TopicMatches(Tail(pattern), Tail(topic))

\* Values of a map[string]interface{} document, by Go type, and what
\* encoding/json makes of them: every number comes back as a float64, a nil
\* map goes out as null and comes back as an untyped nil.
GoString == [t |-> "string", v |-> "value1"]
GoInt == [t |-> "int", v |-> "1"]
GoNil == [t |-> "nil", v |-> "null"]
GoMap == [t |-> "map", v |-> "input1:inputValue"]
GoNilMap == [t |-> "map", v |-> "nil"]

MarshalValue(g) ==
    CASE g.t = "string" -> [j |-> "string", v |-> g.v]
      [] g.t \in {"int", "float64"} -> [j |-> "number", v |-> g.v]
      [] g.t = "nil" -> [j |-> "null", v |-> "null"]
      [] g.t = "map" -> IF g.v = "nil" THEN [j |-> "null", v |-> "null"]
                        ELSE [j |-> "object", v |-> g.v]

UnmarshalValue(j) ==
    CASE j.j = "string" -> [t |-> "string", v |-> j.v]
      [] j.j = "number" -> [t |-> "float64", v |-> j.v]
      [] j.j = "null" -> GoNil
      [] j.j = "object" -> [t |-> "map", v |-> j.v]

\* A document is the set of its members. json.Marshal of a document, and
\* json.Unmarshal of a payload into a map: an error for bytes that are no
\* JSON object.
Marshal(doc) ==
    [json |-> "object",
     members |-> {[key |-> m.key, val |-> MarshalValue(m.val)] : m \in doc}]

NotJSON == [json |-> "invalid", members |-> {}]

Unmarshal(payload) ==
    IF payload.json = "object"
    THEN [err |-> FALSE,
          doc |-> {[key |-> m.key, val |-> UnmarshalValue(m.val)] :
                      m \in payload.members}]
    ELSE [err |-> TRUE, doc |-> {}]

\* Two documents are the same JSON document.
SameDocument(a, b) == Marshal(a) = Marshal(b)

\* The documents published, of one member each; the parameters of an
\* action; and the payloads another client publishes.
DocValues == {GoString, GoInt, GoMap}
Docs == {{[key |-> "name1", val |-> g]} : g \in DocValues}
ActionParams == {GoMap, GoNilMap}
RawPayloads == {NotJSON, Marshal({[key |-> "name1", val |-> GoString]})}

\* The topic a subscription of the hub client is made on. Subscribe and
\* SubscribeToTD turn the thing ID "" into "+"; the others use it as it is.
AllThings(thingID) == IF thingID = <<"">> THEN <<"+">> ELSE thingID

SubscribedTopic(op, thingID) ==
    CASE op = "all" -> <<TopicRoot>> \o AllThings(thingID) \o <<"#">>
      [] op = "td" -> ReplaceAll(TopicTemplate(op), AllThings(thingID))
      [] OTHER -> ReplaceAll(TopicTemplate(op), thingID)

\* subscribedThingID: the local copy of the argument the adapters hold.
SubscribedThingID(op, thingID) ==
    IF op \in {"all", "td"} THEN AllThings(thingID) ELSE thingID

\* Subscribe, SubscribeToActions .. SubscribeToTD: MqttClient.Subscribe on the
\* topic, which replaces a subscription the topic had. A message is either
\* published before the subscription or after it.
HubSubscribe(op, thingID) ==
    LET new == [op |-> op, thingID |-> SubscribedThingID(op, thingID),
                topic |-> SubscribedTopic(op, thingID)]
    IN /\ ~crashed
       /\ wire = NoWire
       /\ hubSubs' = {s \in hubSubs : s.topic # new.topic} \cup {new}
       /\ Cardinality(hubSubs') <= MaxHubSubs
       /\ hubOut' = [op |-> "Subscribe", sub |-> new]
       /\ UNCHANGED <<wire, prov, clientVars, lockVars>>

\* PublishConfigRequest, PublishEvent, PublishPropertyValues, PublishTD by a
\* connected publisher: the document is marshalled and published on the
\* topic of the thing.
HubPublish(msgType, thingID, doc) ==
    /\ ~crashed
    /\ wire = NoWire
    /\ msgType # "action"
    /\ wire' = [topic |-> ReplaceAll(TopicTemplate(msgType), thingID),
                payload |-> Marshal(doc), raw |-> FALSE,
                msgType |-> msgType, thingID |-> thingID, doc |-> doc]
    /\ hubOut' = [op |-> "Publish", msgType |-> msgType]
    /\ UNCHANGED <<hubSubs, prov, clientVars, lockVars>>

\* PublishAction: the document is the map of the action's name to its
\* parameters.
PublishAction(thingID, name, params) ==
    LET actions == {[key |-> name, val |-> params]}
    IN /\ ~crashed
       /\ wire = NoWire
       /\ wire' = [topic |-> ReplaceAll(TopicTemplate("action"), thingID),
                   payload |-> Marshal(actions), raw |-> FALSE,
                   msgType |-> "action", thingID |-> thingID, doc |-> actions]
       /\ hubOut' = [op |-> "Publish", msgType |-> "action"]
       /\ UNCHANGED <<hubSubs, prov, clientVars, lockVars>>

\* MqttClient.Publish by any client, with bytes of its own making.
PublishRaw(msgType, thingID, payload) ==
    /\ ~crashed
    /\ wire = NoWire
    /\ wire' = [topic |-> ReplaceAll(TopicTemplate(msgType), thingID),
                payload |-> payload, raw |-> TRUE,
                msgType |-> msgType, thingID |-> thingID, doc |-> {}]
    /\ hubOut' = [op |-> "Publish", msgType |-> msgType]
    /\ UNCHANGED <<hubSubs, prov, clientVars, lockVars>>

\* The adapter of the action subscription asserts every member of the
\* document to be a map: params.(map[string]interface{}) panics otherwise.
ParamsAsserted(val) == val.t = "map"

AdapterPanics(sub, payload) ==
    /\ sub.op = "action"
    /\ ~Unmarshal(payload).err
    /\ \E m \in Unmarshal(payload).doc : ~ParamsAsserted(m.val)

\* strings.Split(topic, "/") and the parts the adapters take from it.
SplitThingIDFirstPart(parts) == <<parts[1]>>

SplitThingID(parts) == <<parts[2]>>

SplitMsgType(parts) == parts[3]

\* The calls an adapter makes to its handler for one message.
AdapterCalls(sub, topic, payload) ==
    LET u == Unmarshal(payload)
    IN CASE sub.op = "all" ->
              IF Len(topic) > 2
              THEN {[thingID |-> SplitThingID(topic), name |-> SplitMsgType(topic),
                     doc |-> {}, raw |-> payload]}
              ELSE {}
         [] sub.op = "action" ->
              IF u.err THEN {}
              ELSE {[thingID |-> sub.thingID, name |-> m.key, doc |-> {m},
                     raw |-> NotJSON] : m \in {x \in u.doc : ParamsAsserted(x.val)}}
         [] sub.op = "td" ->
              IF u.err THEN {}
              ELSE {[thingID |-> SplitThingID(topic), name |-> "", doc |-> u.doc,
                     raw |-> NotJSON]}
         [] OTHER ->
              IF u.err THEN {}
              ELSE {[thingID |-> sub.thingID, name |-> "", doc |-> u.doc,
                     raw |-> NotJSON]}

\* The broker delivers the message to the subscribing client: the router
\* calls the adapter of every subscription whose topic matches, none when
\* no topic does. A panic in an adapter ends the process, before or after
\* the other adapters ran.
HubReceive ==
    LET matching == {s \in hubSubs : TopicMatches(s.topic, wire.topic)}
        made == UNION {{[sub |-> s, call |-> c] :
                           c \in AdapterCalls(s, wire.topic, wire.payload)} :
                       s \in matching}
        panic == \E s \in matching : AdapterPanics(s, wire.payload)
    IN /\ ~crashed
       /\ wire # NoWire
       /\ wire' = NoWire
       /\ crashed' = panic
       /\ \E calls \in (IF panic THEN {{}, made} ELSE {made}) :
             hubOut' = [op |-> "Receive", topic |-> wire.topic,
                        payload |-> wire.payload, raw |-> wire.raw,
                        msgType |-> wire.msgType, thingID |-> wire.thingID,
                        doc |-> wire.doc, calls |-> calls, panic |-> panic]
       /\ UNCHANGED <<hubSubs, prov, lockVars, cfgVars, isRunning, pahoClient,
                      subscriptions, connStatus, onConnectPending, routes,
                      loopVar, brokerSubs, pahoStore, connVars, app, retired,
                      connVia, leaked, out>>

\* The topic MqttHubClient.Unsubscribe unsubscribes: that of the catch-all
\* subscription of the thing.
UnsubscribedTopics(thingID) == {SubscribedTopic("all", thingID)}

\* Unsubscribe of the hub client, on the connected client: MqttClient's
\* Unsubscribe of the one topic, which takes the subscription of that topic,
\* when there is one, from the broker and from paho's router. The broker may
\* still hold a message published before.
HubUnsubscribe(thingID) ==
    /\ ~crashed
    /\ hubSubs' = {s \in hubSubs : s.topic \notin UnsubscribedTopics(thingID)}
    /\ hubOut' = [op |-> "Unsubscribe", thingID |-> AllThings(thingID)]
    /\ UNCHANGED <<wire, prov, clientVars, lockVars>>

HubNext ==
    \/ \E op \in MessageTypes \cup {"all"}, id \in SubscribeIDs : HubSubscribe(op, id)
    \/ \E id \in SubscribeIDs : HubUnsubscribe(id)
    \/ \E t \in MessageTypes, id \in ThingIDs, doc \in Docs : HubPublish(t, id, doc)
    \/ \E id \in ThingIDs, p \in ActionParams : PublishAction(id, "name1", p)
    \/ \E t \in MessageTypes, id \in ThingIDs, p \in RawPayloads : PublishRaw(t, id, p)
    \/ HubReceive

HubSpec == LockInit /\ [][HubNext]_vars

\* ------------------------------------------- the connection handle
\* The goroutines' steps through mqttClient.pahoClient, on a connected
\* client: each call that checks the handle is split at the check, and Close
\* at the points where it gives up the mutex and where it clears the handle.
\* The application's goroutine runs Close, a second goroutine (a handler on
\* the router goroutine) the calls that use the handle, and paho's OnConnect
\* goroutine the replay. Nothing but updateMutex orders them.
handleRest == <<cfgVars, handlerCalls, hubVars, onConnectPending, pahoStore,
                connVars, ghostVars, connVia, leaked>>

\* The goroutine goes from one place of its call to another.
Goto(g, from, to) ==
    /\ goPc[g] = from
    /\ goPc' = [goPc EXCEPT ![g] = to]

\* A call on the handle: a nil handle makes it panic.
UseHandle(by) ==
    /\ crashed' = (pahoClient = "nil")
    /\ out' = [op |-> "UseHandle", by |-> by, cleared |-> (pahoClient = "nil")]

\* Publish: the check of the handle, then pahoClient.Publish.
PublishCheck(g) ==
    /\ ~crashed
    /\ ~PublishRefused
    /\ Goto(g, "idle", "Publish:checked")
    /\ UNCHANGED <<updateMutex, handlerCalls, clientVars, hubVars>>

PublishUse(g) ==
    /\ ~crashed
    /\ Goto(g, "Publish:checked", "idle")
    /\ UseHandle("Publish")
    /\ UNCHANGED <<updateMutex, isRunning, pahoClient, subscriptions, connStatus,
                   routes, loopVar, brokerSubs, handleRest>>

\* Subscribe: Lock and the check of the handle; then pahoClient.Subscribe
\* when the check found a handle, the write of the map and the Unlock.
SubscribeCheck(g) ==
    /\ ~crashed
    /\ MutexLock(g)
    /\ Goto(g, "idle", IF pahoClient = "nil" THEN "Subscribe:nohandle"
                                             ELSE "Subscribe:checked")
    /\ UNCHANGED <<handlerCalls, clientVars, hubVars>>

SubscribeUse(g, topic, handler) ==
    /\ ~crashed
    /\ goPc[g] \in {"Subscribe:checked", "Subscribe:nohandle"}
    /\ goPc' = [goPc EXCEPT ![g] = "idle"]
    /\ IF goPc[g] = "Subscribe:checked"
       THEN UseHandle("Subscribe")
       ELSE /\ out' = [op |-> "Subscribe:nohandle", by |-> "Subscribe", cleared |-> FALSE]
            /\ UNCHANGED crashed
    /\ IF goPc[g] = "Subscribe:checked" /\ PahoOpen
       THEN /\ routes' = [routes EXCEPT ![topic] = SubscribeRoute(routes[topic], handler)]
            /\ brokerSubs' = brokerSubs \cup {topic}
       ELSE UNCHANGED <<routes, brokerSubs>>
    /\ subscriptions' = [subscriptions EXCEPT
                            ![topic] = SubscribeEntry(subscriptions[topic], handler)]
    /\ updateMutex' = "free"
    /\ UNCHANGED <<isRunning, pahoClient, connStatus, loopVar, handleRest>>

\* Unsubscribe: the reads of the map entry and of the handle, then
\* pahoClient.Unsubscribe and the write of the entry.
UnsubscribeChecked(topic) ==
    IF topic = "a" THEN "Unsubscribe:checked:a" ELSE "Unsubscribe:checked:#"

UnsubscribeCheck(g, topic) ==
    /\ ~crashed
    /\ UnsubscribeActs(topic)
    /\ Goto(g, "idle", UnsubscribeChecked(topic))
    /\ UNCHANGED <<updateMutex, handlerCalls, clientVars, hubVars>>

UnsubscribeUse(g, topic) ==
    /\ ~crashed
    /\ Goto(g, UnsubscribeChecked(topic), "idle")
    /\ UseHandle("Unsubscribe")
    /\ subscriptions' = [subscriptions EXCEPT ![topic] = NilSub]
    /\ IF PahoOpen
       THEN /\ routes' = [routes EXCEPT ![topic] = NoRoute]
            /\ brokerSubs' = brokerSubs \ {topic}
       ELSE UNCHANGED <<routes, brokerSubs>>
    /\ UNCHANGED <<updateMutex, isRunning, pahoClient, connStatus, loopVar,
                   handleRest>>

\* The replay after a reconnect of the client: Lock, then for every key of
\* the map pahoClient.Unsubscribe and Subscribe, with no check of the handle.
ReplayLock ==
    /\ ~crashed
    /\ pahoClient = "client"
    /\ MutexLock("onconnect")
    /\ Goto("onconnect", "idle", "resubscribe:held")
    /\ UNCHANGED <<handlerCalls, clientVars, hubVars>>

ReplayUse ==
    /\ ~crashed
    /\ Goto("onconnect", "resubscribe:held", "idle")
    /\ updateMutex' = "free"
    /\ IF MapKeys = {}
       THEN /\ out' = [op |-> "resubscribe:nokeys", by |-> "resubscribe", cleared |-> FALSE]
            /\ UNCHANGED <<crashed, routes, loopVar, brokerSubs>>
       ELSE /\ UseHandle("resubscribe")
            /\ IF PahoOpen
               THEN /\ \E last \in MapKeys : loopVar' = ReplayBinding(last)
                    /\ routes' = [p \in Patterns |->
                                    IF p \in MapKeys THEN LoopVarRoute ELSE routes[p]]
                    /\ brokerSubs' = brokerSubs \cup MapKeys
               ELSE UNCHANGED <<routes, loopVar, brokerSubs>>
    /\ UNCHANGED <<isRunning, pahoClient, subscriptions, connStatus, handleRest>>

\* Close: isRunning under the mutex; the check of the handle; Disconnect,
\* the clearing of the handle and the new map.
CloseIsRunning ==
    /\ ~crashed
    /\ updateMutex = "free"
    /\ Goto("app", "idle", "Close:check")
    /\ isRunning' = FALSE
    /\ out' = [op |-> "Close:isRunning", by |-> "Close", cleared |-> FALSE]
    /\ UNCHANGED <<updateMutex, pahoClient, subscriptions, connStatus, routes,
                   loopVar, brokerSubs, crashed, handleRest>>

CloseCheck ==
    /\ ~crashed
    /\ Goto("app", "Close:check", IF pahoClient = "nil" THEN "idle"
                                                       ELSE "Close:disconnect")
    /\ UNCHANGED <<updateMutex, handlerCalls, clientVars, hubVars>>

CloseClear ==
    /\ ~crashed
    /\ Goto("app", "Close:disconnect", "idle")
    /\ UseHandle("Close")
    /\ connStatus' = CloseStatus
    /\ pahoClient' = "nil"
    /\ subscriptions' = CloseRegistry
    /\ routes' = [p \in Patterns |-> NoRoute]
    /\ brokerSubs' = {}
    /\ UNCHANGED <<updateMutex, isRunning, loopVar, handleRest>>

\* Connect, whole (its handshake accepted, nothing racing it): a client to
\* close again.
ConnectAgain ==
    /\ ~crashed
    /\ pahoClient = "nil"
    /\ \A g \in Goroutines : goPc[g] = "idle"
    /\ pahoClient' = "client"
    /\ connStatus' = "connected"
    /\ isRunning' = TRUE
    /\ out' = [op |-> "Connect", by |-> "Connect", cleared |-> FALSE]
    /\ UNCHANGED <<updateMutex, goPc, subscriptions, routes, loopVar, brokerSubs,
                   crashed, handleRest>>

HandleNext ==
    \/ PublishCheck("router")
    \/ PublishUse("router")
    \/ SubscribeCheck("router")
    \/ \E p \in Patterns, h \in Handlers : SubscribeUse("router", p, h)
    \/ \E p \in Patterns : UnsubscribeCheck("router", p)
    \/ \E p \in Patterns : UnsubscribeUse("router", p)
    \/ ReplayLock
    \/ ReplayUse
    \/ CloseIsRunning
    \/ CloseCheck
    \/ CloseClear
    \/ ConnectAgain

HandleSpec == LockInit /\ [][HandleNext]_vars

\* ------------------------------------------------- RequestProvisioning
\* RequestProvisioning (internal/mqttclient) on a connected client, step by
\* step of the calling goroutine, with the callback of its subscription on
\* paho's router goroutine. certPEM and timeout are the named results, which
\* the callback writes too; done is the channel of capacity 1.
\* Up to Publish: the channel is made and the response topic is subscribed.
RequestProvisioning(waitSec) ==
    /\ prov.pc \in {"idle", "returned"}
    /\ prov' = [NoProv EXCEPT !.pc = "publish", !.waitSec = waitSec,
                              !.routed = TRUE]
    /\ UNCHANGED <<hubSubs, wire, hubOut, clientVars, lockVars>>

\* Publish of the request: on an error the call returns (nil, true), the
\* subscription staying in place; else it enters the select, where
\* time.After starts the timer.
ProvisionPublish(ok) ==
    /\ prov.pc = "publish"
    /\ prov' = IF ok
               THEN [prov EXCEPT !.pc = "select", !.published = "ok"]
               ELSE [prov EXCEPT !.pc = "returned", !.published = "error",
                                 !.result = [certPEM |-> "nil", timeout |-> TRUE]]
    /\ UNCHANGED <<hubSubs, wire, hubOut, clientVars, lockVars>>

\* A second of the wait passes while the call sleeps in the select.
ProvisionTick ==
    /\ prov.pc = "select"
    /\ prov.done = 0
    /\ prov.elapsed < prov.waitSec
    /\ prov' = [prov EXCEPT !.elapsed = @ + 1]
    /\ UNCHANGED <<hubSubs, wire, hubOut, clientVars, lockVars>>

\* The response arrived within waitSec of the request.
WithinWait == prov.pc \in {"publish", "select"} /\ prov.elapsed < prov.waitSec

\* What the callback leaves in the named result `timeout`.
CallbackTimeout == FALSE

\* A message on the response topic: the callback writes the named results
\* and sends on done, which blocks the router goroutine while the channel
\* is full.
ProvisionResponse ==
    /\ prov.routed
    /\ ~prov.blocked
    /\ prov' = [prov EXCEPT
                  !.certPEM = "response",
                  !.timeout = CallbackTimeout,
                  !.done = 1,
                  !.blocked = (prov.done = 1),
                  !.arrived = IF prov.arrived # "none" \/ prov.pc = "returned"
                              THEN @
                              ELSE IF WithinWait THEN "intime" ELSE "late"]
    /\ UNCHANGED <<hubSubs, wire, hubOut, clientVars, lockVars>>

\* The select takes the case of done.
SelectDone ==
    /\ prov.pc = "select"
    /\ prov.done = 1
    /\ prov' = [prov EXCEPT !.pc = "unsubscribe",
                            !.done = IF prov.blocked THEN 1 ELSE 0,
                            !.blocked = FALSE]
    /\ UNCHANGED <<hubSubs, wire, hubOut, clientVars, lockVars>>

\* The select takes the case of the timer, which has fired.
SelectTimeout ==
    /\ prov.pc = "select"
    /\ prov.elapsed = prov.waitSec
    /\ prov' = [prov EXCEPT !.pc = "unsubscribe", !.timeout = TRUE]
    /\ UNCHANGED <<hubSubs, wire, hubOut, clientVars, lockVars>>

\* Unsubscribe of the response topic and the return of the named results.
ProvisionReturn ==
    /\ prov.pc = "unsubscribe"
    /\ prov' = [prov EXCEPT !.pc = "returned", !.routed = FALSE,
                            !.result = [certPEM |-> prov.certPEM,
                                        timeout |-> prov.timeout]]
    /\ UNCHANGED <<hubSubs, wire, hubOut, clientVars, lockVars>>

ProvisionNext ==
    \/ \E waitSec \in 1..MaxWaitSec : RequestProvisioning(waitSec)
    \/ \E ok \in BOOLEAN : ProvisionPublish(ok)
    \/ ProvisionTick
    \/ ProvisionResponse
    \/ SelectDone
    \/ SelectTimeout
    \/ ProvisionReturn

\* The calling goroutine keeps running and time passes.
ProvisionFairness ==
    /\ WF_vars(\E ok \in BOOLEAN : ProvisionPublish(ok))
    /\ WF_vars(ProvisionTick)
    /\ WF_vars(SelectDone)
    /\ WF_vars(SelectTimeout)
    /\ WF_vars(ProvisionReturn)

ProvisionSpec == LockInit /\ [][ProvisionNext]_vars /\ ProvisionFairness

\* ------------------------------------------- PublishAction .. PublishTD
\* The Publish operations of the hub client with the error each returns, in
\* both packages, on a client that is connected or has been closed.
Packages == {"hubclient", "mqttclient"}

\* Values encoding/json has no encoding for: a channel, and a map that holds
\* one. json.Marshal returns no bytes and an error for a document with such
\* a value.
GoChan == [t |-> "chan", v |-> "chan1"]
GoChanMap == [t |-> "map", v |-> "input1:chan1"]

MarshalFails(doc) == \E m \in doc : m.val \in {GoChan, GoChanMap}

\* The nil []byte json.Marshal returns with its error: an empty payload.
NilMessage == [json |-> "empty", members |-> {}]

MarshalMessage(doc) == IF MarshalFails(doc) THEN NilMessage ELSE Marshal(doc)

PublishDocs == Docs \cup {{[key |-> "name1", val |-> GoChan]}}
PublishParams == ActionParams \cup {GoChanMap}

\* The operations that return the error of json.Marshal: PublishAction and
\* PublishConfigRequest of pkg/hubclient. The others drop it
\* (`message, _ :=`) or overwrite it with the result of Publish.
MarshalErrorReturned(pkg, msgType) ==
    pkg = "hubclient" /\ msgType \in {"action", "config"}

\* The error MqttClient.Publish returns: that of its guard, or the nil of the
\* token on a connected client.
PublishResult == IF PublishRefused THEN "no connection with server" ELSE "nil"

\* One Publish operation on the marshalled document.
PublishDocument(pkg, msgType, thingID, doc) ==
    LET failed == MarshalFails(doc)
        call == [op |-> "PublishX", pkg |-> pkg, msgType |-> msgType,
                 thingID |-> thingID, doc |-> doc, refused |-> PublishRefused]
    IN /\ IF failed /\ MarshalErrorReturned(pkg, msgType)
          THEN /\ hubOut' = [call EXCEPT !.refused = FALSE] @@
                            [result |-> "marshal error", called |-> FALSE]
               /\ UNCHANGED wire
          ELSE /\ hubOut' = call @@ [result |-> PublishResult, called |-> TRUE]
               /\ wire' = IF PublishRefused THEN NoWire
                          ELSE [topic |-> ReplaceAll(TopicTemplate(msgType), thingID),
                                payload |-> MarshalMessage(doc), raw |-> FALSE,
                                msgType |-> msgType, thingID |-> thingID,
                                doc |-> doc]
       /\ UNCHANGED <<hubSubs, prov, clientVars, lockVars>>

\* PublishConfigRequest, PublishEvent, PublishPropertyValues, PublishTD, while
\* no message is under way.
PublishX(pkg, msgType, thingID, doc) ==
    /\ ~crashed
    /\ wire = NoWire
    /\ msgType # "action"
    /\ PublishDocument(pkg, msgType, thingID, doc)

\* PublishAction: the document is the map of the action's name to its
\* parameters.
PublishActionX(pkg, thingID, name, params) ==
    /\ ~crashed
    /\ wire = NoWire
    /\ PublishDocument(pkg, "action", thingID, {[key |-> name, val |-> params]})

PublishNext ==
    \/ \E pkg \in Packages, t \in MessageTypes, id \in ThingIDs, doc \in PublishDocs :
          PublishX(pkg, t, id, doc)
    \/ \E pkg \in Packages, id \in ThingIDs, p \in PublishParams :
          PublishActionX(pkg, id, "name1", p)
    \/ HubReceive
    \/ Close

PublishSpec == LockInit /\ [][PublishNext]_vars

\* ------------------------------------------- provisioning requests
\* SubscribeToProvisionRequest, PublishProvisionRequest and
\* PublishProvisionResponse (internal/mqttclient). api.TopicProvisionRequest
\* and api.TopicProvisionResponse are topics with an "{id}" part, like the
\* other topics of the api package; whether the two are one topic or two is
\* left open, the subscription carrying the pair it was built with.
ProvisionTopics == {<<TopicRoot, "{id}", "provision">>,
                    <<TopicRoot, "{id}", "provisioned">>}

ProvisionAPIs == [request : ProvisionTopics, response : ProvisionTopics]

\* A []byte goes through encoding/json as a base64 string.
CSRs == {"csr1", "csr2", "cert1", "cert2"}

MarshalBytes(b) == [json |-> "string", members |-> {}, base64 |-> <<"b64", b>>]

UnmarshalBytes(payload) ==
    IF payload.json = "string" /\ "base64" \in DOMAIN payload
    THEN [err |-> FALSE, bytes |-> payload.base64[2]]
    ELSE [err |-> TRUE, bytes |-> ""]

\* The subscription is made on the response topic with "+" for the ID.
SubscribeToProvisionRequest(api) ==
    /\ ~crashed
    /\ wire = NoWire
    /\ hubSubs' = {[op |-> "provision", thingID |-> <<"+">>,
                    topic |-> ReplaceAll(api.response, <<"+">>), api |-> api]}
    /\ hubOut' = [op |-> "SubscribeToProvisionRequest"]
    /\ UNCHANGED <<wire, prov, clientVars, lockVars>>

\* PublishProvisionRequest by a thing and PublishProvisionResponse by a
\* plugin, both connected.
PublishProvision(kind, thingID, bytes) ==
    /\ ~crashed
    /\ wire = NoWire
    /\ \E s \in hubSubs :
          wire' = [topic |-> ReplaceAll(s.api[kind], thingID),
                   payload |-> MarshalBytes(bytes), raw |-> FALSE,
                   msgType |-> kind, thingID |-> thingID, bytes |-> bytes]
    /\ hubOut' = [op |-> "Publish", msgType |-> kind]
    /\ UNCHANGED <<hubSubs, prov, clientVars, lockVars>>

\* The callback of the subscription: the thing ID is the second part of
\* the subscribed topic (`strings.Split(topic, "/")`, topic being the
\* variable of the enclosing function), the CSR the decoded payload.
ProvisionRequestCalls(sub, payload) ==
    LET u == UnmarshalBytes(payload)
    IN IF Len(sub.topic) < 2 \/ u.err THEN {}
       ELSE {[thingID |-> SplitThingID(sub.topic), csrPEM |-> u.bytes]}

ProvisionReceive ==
    /\ ~crashed
    /\ wire # NoWire
    /\ wire' = NoWire
    /\ hubOut' = [op |-> "Receive", msgType |-> wire.msgType,
                  thingID |-> wire.thingID, bytes |-> wire.bytes,
                  calls |-> UNION {ProvisionRequestCalls(s, wire.payload) :
                                      s \in {x \in hubSubs :
                                               TopicMatches(x.topic, wire.topic)}}]
    /\ UNCHANGED <<hubSubs, prov, clientVars, lockVars>>

ProvisionRequestNext ==
    \/ \E api \in ProvisionAPIs : SubscribeToProvisionRequest(api)
    \/ \E kind \in {"request", "response"}, id \in ThingIDs, b \in CSRs :
          PublishProvision(kind, id, b)
    \/ ProvisionReceive

ProvisionRequestSpec == LockInit /\ [][ProvisionRequestNext]_vars

\* -------------------------------------------------------------- claims
\* A pattern the application has registered, with the map entry Subscribe
\* wrote for it still in place.
Registered(p) == app[p].h # "none" /\ subscriptions[p] = app[p].h

\* The last step delivered a message on a topic that pattern p matches.
DeliveredOn(p) == out.op = "Receive" /\ Matches(p, out.topic)

\* C1 (Resubscribe invariant): for the patterns registered before a
\* connection existed, once Connect has succeeded and the registry has been
\* replayed, a message on a topic a pattern matches is delivered to the
\* handler registered for that pattern, for every pattern of the set.
C1_ResubscribeDelivers ==
    \A p \in Patterns :
        ( /\ DeliveredOn(p)
          /\ connVia = "connect"
          /\ ~onConnectPending
          /\ Registered(p)
          /\ app[p].when = "offline" )
        => out.calls[app[p].h] >= 1

\* C2 (Reconnect durability): for a pattern subscribed while connected, after
\* the connection was lost and the transport reconnected by itself (and the
\* registry was replayed), a message is delivered to that pattern's handler
\* without a new Subscribe.
C2_ReconnectDelivers ==
    \A p \in Patterns :
        ( /\ DeliveredOn(p)
          /\ connVia = "auto"
          /\ ~onConnectPending
          /\ Registered(p)
          /\ app[p].when = "online" )
        => out.calls[app[p].h] >= 1

C4_UnsubscribedNeverInvoked ==
    out.op = "Receive" =>
        \A h \in Handlers : retired[h] = "unsubscribed" => out.calls[h] = 0

\* C5 (Subscribe replaces): a handler that a later Subscribe on the same
\* pattern replaced (and that is registered under no pattern since) is
\* invoked for no later message.
C5_ReplacedNeverInvoked ==
    out.op = "Receive" =>
        \A h \in Handlers : retired[h] = "replaced" => out.calls[h] = 0

\* The last step was a Subscribe on an open connection of a second,
\* distinct handler to a pattern the application had a handler on.
SecondHandler ==
    /\ out.op = "Subscribe"
    /\ out.open
    /\ out.over \notin {"none", out.handler}

\* C6 as the spec has it (Multi-handler fan-out): after two distinct handlers
\* were subscribed to one pattern, a message on it is delivered to both,
\* exactly once each.
C6_FanOut ==
    [][ ( /\ SecondHandler
          /\ out'.op = "Receive"
          /\ Matches(out.topic, out'.topic) )
        => ( /\ out'.calls[out.handler] = 1
             /\ out'.calls[out.over] = 1 ) ]_vars

\* C6 amended: after two distinct handlers were subscribed to one pattern on
\* an open connection, a message that only this pattern matches is delivered
\* exactly once to the handler subscribed last and not to the first.
C6_LastHandlerOnly ==
    [][ ( /\ SecondHandler
          /\ out'.op = "Receive"
          /\ MatchingRoutes(out'.topic) = {out.topic} )
        => ( /\ out'.calls[out.handler] = 1
             /\ out'.calls[out.over] = 0
             /\ ~out'.panic ) ]_vars

\* C6 witness: the second handler has been subscribed on an open connection
\* and the broker holds the pattern, nothing else matching topic "a".
C6_Witness ==
    /\ SecondHandler
    /\ out.topic = "a"
    /\ out.topic \in brokerSubs
    /\ MatchingRoutes("a") = {"a"}

\* C7 as the spec has it (Close preserves logical subscriptions): a Close
\* (none racing a Connect in progress) leaves the registered entries
\* unchanged.
C7_ClosePreserves ==
    [][ (out'.op = "Close" /\ ~out'.racing) => subscriptions' = subscriptions ]_vars

\* C7 amended: a Close on a client that holds a connection handle empties the
\* registry; a Close on a client without a handle leaves it unchanged.
C7_CloseClears ==
    [][ out'.op = "Close" =>
          subscriptions' = (IF pahoClient = "client"
                            THEN [p \in Patterns |-> Absent]
                            ELSE subscriptions) ]_vars

\* C7 witness: Close has run on a connected client whose application had
\* registered a pattern, and the entry is gone.
C7_Witness ==
    /\ out.op = "Close"
    /\ out.handle = "client"
    /\ out.status = "connected"
    /\ ~out.racing
    /\ \E p \in Patterns : app[p].h # "none" /\ subscriptions[p] = Absent

\* C8 (No reconnect after Close): from Close until the application calls
\* Connect again (isRunning is false exactly then) the client holds no
\* handle, is disconnected, and no step is an automatic reconnect or a
\* delivery to a handler.
C8_NoReconnectAfterClose ==
    ~isRunning =>
        ( /\ pahoClient = "nil"
          /\ connStatus = "disconnected"
          /\ brokerSubs = {}
          /\ out.op \notin {"Reconnect", "Receive"} )

\* C8 witness: Close was called while the transport was reconnecting by
\* itself.
C8_Witness ==
    /\ out.op = "Close"
    /\ out.status = "reconnecting"
    /\ ~isRunning

Min(a, b) == IF a < b THEN a ELSE b

\* C9 (Connect terminates with a definitive result), state part: with a
\* timeout above 0, a Connect that returns after the broker refused every
\* handshake returns an error, after at least one and at most `timeout`
\* attempts; a Connect whose handshake the broker accepts returns nil, and
\* the client is connected.
C9_Result ==
    /\ (out.op = "ConnectReturn" /\ timeout > 0) =>
          ( /\ out.result = "error"
            /\ out.k >= 1
            /\ out.k <= timeout
            /\ connStatus # "connected" )
    /\ (out.op = "ConnectAttempt" /\ ~out.panic /\ out.accepted) =>
          ( /\ out.returned
            /\ out.result = "nil"
            /\ connStatus = "connected" )

\* C9: the state part, and with a timeout above 0 a Connect in its retry loop
\* always returns.
C9_ConnectTerminates ==
    /\ []C9_Result
    /\ ((connPc = "loop" /\ timeout > 0) ~> (connPc = "idle"))

\* C9 witness: Connect has returned an error after more than one refused
\* handshake.
C9_Witness ==
    /\ out.op = "ConnectReturn"
    /\ timeout > 0
    /\ out.result = "error"
    /\ out.k >= 2

\* C10 as the spec has it (Connect backoff policy): the delay before the k-th
\* retry is min(k, 120) seconds, and an attempt is made only while the
\* accumulated wait is below the configured timeout.
C10_BackoffBelowTimeout ==
    (out.op = "ConnectAttempt" /\ ~out.panic) =>
        ( /\ out.before < timeout
          /\ ~out.accepted => out.delay = Min(out.k, MaxRetryDelaySec) )

\* C10 amended: the delay before the k-th retry is min(k, 120) seconds, and
\* an attempt is made only while the timeout is 0 (retry without limit) or
\* the accumulated wait is below the configured timeout.
C10_Backoff ==
    (out.op = "ConnectAttempt" /\ ~out.panic) =>
        ( /\ (timeout = 0 \/ out.before < timeout)
          /\ ~out.accepted =>
                ( /\ out.delay = Min(out.k, MaxRetryDelaySec)
                  /\ retryDelaySec = Min(out.k + 1, MaxRetryDelaySec) ) )

\* C10 witness: a retry past the 120th, delayed by the capped 120 seconds.
C10_Witness ==
    /\ out.op = "ConnectAttempt"
    /\ ~out.panic
    /\ ~out.accepted
    /\ out.k > MaxRetryDelaySec
    /\ out.delay = MaxRetryDelaySec

C12_OneConnection ==
    /\ ~leaked
    /\ (out.op = "ConnectStart" /\ out.previous # "disconnected") =>
          (out.disconnected /\ connStatus = "disconnected")
    /\ \A p \in Patterns :
          ( /\ DeliveredOn(p)
            /\ connVia = "connect"
            /\ ~onConnectPending
            /\ Registered(p)
            /\ app[p].when = "prior" )
          => out.calls[app[p].h] >= 1

\* C13 (Subscribe while Connected takes effect immediately): a Subscribe on
\* an open connection has subscribed the pattern at the broker and routed it
\* to the handler when it returns, and a message that arrives next on a topic
\* the pattern matches is delivered to the handler.
C13_SubscribeImmediate ==
    /\ [](( out.op = "Subscribe" /\ out.open ) =>
             ( /\ out.topic \in brokerSubs
               /\ routes[out.topic] = out.handler ))
    /\ [][ ( /\ out.op = "Subscribe"
             /\ out.open
             /\ out'.op = "Receive"
             /\ Matches(out.topic, out'.topic) )
           => out'.calls[out.handler] >= 1 ]_vars

\* C14 (Offline Subscribe/Unsubscribe only touch the registry): a Subscribe
\* called while no connection is open writes the entry of its pattern, an
\* Unsubscribe called then leaves no entry for its pattern, and neither
\* changes the broker's subscriptions or the routes of the transport.
C14_OfflineRegistryOnly ==
    [][ ( /\ ~PahoOpen
          /\ out'.op \in {"Subscribe", "Unsubscribe"} )
        => ( /\ subscriptions'[out'.topic] =
                    (IF out'.op = "Subscribe" THEN out'.handler ELSE Absent)
             /\ brokerSubs' = brokerSubs
             /\ routes' = routes
             /\ ~crashed' ) ]_vars

\* C15 (Unsubscribe of an unknown pattern is a no-op): an Unsubscribe of a
\* pattern that has no subscription in the map (no key, or a key left with a
\* nil value) changes neither the map, the broker's subscriptions, the routes
\* nor the connection, and does not fail, whatever the connection state.
C15_UnsubscribeUnknown ==
    [][ ( /\ out'.op = "Unsubscribe"
          /\ subscriptions[out'.topic] \in {Absent, NilSub} )
        => ( /\ subscriptions' = subscriptions
             /\ brokerSubs' = brokerSubs
             /\ routes' = routes
             /\ connStatus' = connStatus
             /\ pahoClient' = pahoClient
             /\ isRunning' = isRunning
             /\ ~crashed' ) ]_vars

\* C15 witness: a pattern without a map key was unsubscribed on an open
\* connection that carries another subscription.
C15_Witness ==
    /\ out.op = "Unsubscribe"
    /\ out.entry = Absent
    /\ PahoOpen
    /\ brokerSubs # {}
    /\ \E p \in Patterns : subscriptions[p] \in Handlers

\* C16 (Re-entrant handlers do not deadlock): the router goroutine holds the
\* mutex only inside a Subscribe the handler itself has called, never when
\* the handler starts or while it runs its own code, and a handler that
\* calls Subscribe, Unsubscribe or Publish always returns, also while a
\* replay or a call of the application goes on.
C16_HandlerReturns ==
    /\ [](updateMutex = "router" => goPc["router"] = "Subscribe:held")
    /\ ((goPc["router"] # "idle") ~> (goPc["router"] = "idle"))

\* C16 witness: a handler waits in Subscribe for the mutex that a replay
\* holds.
C16_Witness ==
    /\ goPc["router"] = "Subscribe:lock"
    /\ goPc["onconnect"] = "resubscribe:held"
    /\ updateMutex = "onconnect"

\* The message of the last delivery came from a Publish operation of a hub
\* client, for a thing whose ID is one part of the topic.
PublishedByHubClient ==
    /\ hubOut.op = "Receive"
    /\ ~hubOut.raw
    /\ Len(hubOut.thingID) = 1

\* The calls the adapter of one subscription made in the last delivery.
CallsOf(sub) == {c \in hubOut.calls : c.sub = sub}

\* C17: when a subscriber holds SubscribeToX(thingID, h) and a publisher
\* calls PublishX(thingID, doc), h is called once, with thingID and a document
\* equal to doc; PublishAction(thingID, name, params) calls the action
\* handler once with (thingID, name, params).
C17_TypedRoundTrip ==
    PublishedByHubClient =>
        \A sub \in hubSubs :
            (sub.op = hubOut.msgType /\ sub.thingID = hubOut.thingID) =>
                /\ ~hubOut.panic
                /\ Cardinality(CallsOf(sub)) = 1
                /\ \A c \in CallsOf(sub) :
                      /\ c.call.thingID = hubOut.thingID
                      /\ SameDocument(c.call.doc, hubOut.doc)
                      /\ sub.op = "action" =>
                            \E m \in hubOut.doc : c.call.name = m.key

\* C18: a handler subscribed for the wildcard entity is called with the
\* entity ID of the topic the message came on, for every SubscribeToX and
\* for the catch-all Subscribe.
C18_IDFromTopic ==
    hubOut.op = "Receive" =>
        \A c \in hubOut.calls :
            c.sub.thingID = <<"+">> =>
                /\ c.call.thingID = SplitThingID(hubOut.topic)
                /\ c.call.thingID # <<"+">>

\* C19: the topic built from (entityID, kind) parses back, by its second and
\* third part, to (entityID, kind): for every entity ID in the statement
\* C19_EveryEntityID, for an entity ID without a "/" in C19_TopicRoundTrip.
ParsedBack(thingID, msgType) ==
    LET parts == ReplaceAll(TopicTemplate(msgType), thingID)
    IN /\ Len(parts) > 2
       /\ SplitThingID(parts) = thingID
       /\ SplitMsgType(parts) = msgType

C19_EveryEntityID ==
    /\ \A id \in SubscribeIDs, t \in MessageTypes : ParsedBack(id, t)
    /\ hubOut.op = "Receive" =>
          \A c \in hubOut.calls :
              c.sub.op = "all" => /\ c.call.thingID = hubOut.thingID
                                  /\ c.call.name = hubOut.msgType

C19_TopicRoundTrip ==
    /\ \A id \in SubscribeIDs, t \in MessageTypes :
          Len(id) = 1 => ParsedBack(id, t)
    /\ (hubOut.op = "Receive" /\ Len(hubOut.thingID) = 1) =>
          \A c \in hubOut.calls :
              c.sub.op = "all" => /\ c.call.thingID = hubOut.thingID
                                  /\ c.call.name = hubOut.msgType

C19_Witness ==
    /\ hubOut.op = "Receive"
    /\ hubOut.thingID = <<"thing1">>
    /\ hubOut.msgType = "event"
    /\ \E c \in hubOut.calls :
          /\ c.sub.op = "all"
          /\ c.sub.thingID = <<"+">>
          /\ c.call.thingID = <<"thing1">>
          /\ c.call.name = "event"

\* The payload is not the document a typed subscription expects: it is no
\* JSON object, or, for actions, a parameter of it is no object.
NotExpectedDocument(sub, payload) ==
    \/ Unmarshal(payload).err
    \/ /\ sub.op = "action"
       /\ \E m \in payload.members : m.val.j # "object"

\* C20: a message whose payload is not the document a typed subscription
\* expects is dropped: the handler is not called, nothing fails, and the
\* client goes on delivering.
C20_BadPayloadDropped ==
    hubOut.op = "Receive" =>
        \A sub \in hubSubs :
            ( /\ sub.op # "all"
              /\ TopicMatches(sub.topic, hubOut.topic)
              /\ NotExpectedDocument(sub, hubOut.payload) ) =>
                /\ CallsOf(sub) = {}
                /\ ~hubOut.panic
                /\ ~crashed

\* The subscription SubscribeToX(thingID, h) (Subscribe for "all") registers.
SubscriptionOf(op, thingID) ==
    [op |-> op, thingID |-> SubscribedThingID(op, thingID),
     topic |-> SubscribedTopic(op, thingID)]

\* C21: the subscription SubscribeToEvents, SubscribeToPropertyValues or
\* SubscribeToTD makes for the thing ID "" receives the messages of its kind
\* that any Thing publishes.
C21_EmptyMeansAll ==
    (PublishedByHubClient /\ hubOut.msgType \in {"event", "values", "td"}) =>
        \A sub \in hubSubs :
            sub = SubscriptionOf(hubOut.msgType, <<"">>) => CallsOf(sub) # {}

\* The catch-all pattern of MqttClient's patterns: the topic
\* MqttHubClient.Subscribe and Unsubscribe use, which matches every topic.
CatchAll == "#"

\* C22: once the catch-all pattern has been unsubscribed (and not subscribed
\* again), its handler is called for no later message through the catch-all
\* route, in whatever connection state Unsubscribe was called; and a Publish
\* that follows the Unsubscribe on an open connection returns no error.
C22_CatchAllUnsubscribed ==
    /\ []( ( /\ out.op = "Receive"
             /\ app[CatchAll] = NoReg
             /\ CatchAll \in MatchingRoutes(out.topic) ) =>
           \A h \in Handlers :
               (RouteTarget(CatchAll) = h /\ retired[h] = "unsubscribed") =>
                   out.calls[h] = 0 )
    /\ [][ ( /\ out.op = "Unsubscribe"
             /\ out.topic = CatchAll
             /\ PahoOpen
             /\ out'.op = "Publish" ) => out'.result = "nil" ]_vars

\* C23: after Unsubscribe(thingID) of the hub client, a message of the Thing
\* that is delivered next calls no handler the client had registered for
\* thingID, through the catch-all Subscribe or through a SubscribeToX.
C23_UnsubscribeCoversThing ==
    [][ ( /\ hubOut.op = "Unsubscribe"
          /\ hubOut'.op = "Receive"
          /\ hubOut'.thingID = hubOut.thingID )
        => \A c \in hubOut'.calls : c.sub.thingID # hubOut.thingID ]_vars

\* C24: RequestProvisioning on a connected client always returns; it returns
\* timeout = false with the response when a message arrived on the response
\* topic within waitSec of the request, and timeout = true when none arrived
\* within waitSec or the request could not be published.
C24_Returned ==
    prov.pc = "returned" =>
        /\ prov.published = "error" => prov.result.timeout
        /\ (prov.published = "ok" /\ prov.arrived = "intime") =>
              prov.result = [certPEM |-> "response", timeout |-> FALSE]
        /\ (prov.published = "ok" /\ prov.arrived # "intime") =>
              prov.result.timeout

C24_ResponseOrTimeout ==
    /\ []C24_Returned
    /\ ((prov.pc \notin {"idle", "returned"}) ~> (prov.pc = "returned"))

\* The last step was a replay over a registry of two or more patterns, each
\* with a handler.
ReplayedSeveral ==
    /\ out.op = "resubscribe"
    /\ ~out.panic
    /\ Cardinality(out.keys) >= 2
    /\ \A p \in out.keys : subscriptions[p] \in Handlers

\* C25: after a replay over a registry holding two or more patterns, a
\* message calls the handlers registered under the patterns that match its
\* topic, and no handler registered only under patterns that do not.
C25_ReplayKeepsBinding ==
    [][ (ReplayedSeveral /\ out'.op = "Receive") =>
          \A h \in Handlers :
              (out'.calls[h] >= 1) <=>
                  (\E p \in out.keys :
                      Matches(p, out'.topic) /\ subscriptions[p] = h) ]_vars

\* C26: after an Unsubscribe on a connected client the registry has no entry
\* for the pattern; a replay subscribes no pattern whose entry holds no
\* handler, and no message is dispatched to a missing handler.
C26_UnsubscribedAbsent ==
    /\ [][ (out'.op = "Unsubscribe" /\ PahoOpen) =>
             subscriptions'[out'.topic] = Absent ]_vars
    /\ [](out.op = "resubscribe" =>
             \A p \in out.keys : subscriptions[p] # NilSub)
    /\ [](out.op = "Receive" => ~out.panic)

\* C27: every transition into the connected state starts a replay; a replay
\* subscribes the keys the registry has when it runs; and a pattern that was
\* subscribed while connected and replayed since has one route, through which
\* a message that only this pattern matches is delivered to the pattern's
\* handler exactly once.
C27_ReplayOnEveryConnection ==
    /\ [][ (connStatus # "connected" /\ connStatus' = "connected") =>
             onConnectPending' ]_vars
    /\ []((out.op = "resubscribe" /\ ~out.panic /\ PahoOpen) =>
             (out.keys = MapKeys /\ MapKeys \subseteq brokerSubs))
    /\ []((out.op = "Receive" /\ ~onConnectPending) =>
             \A p \in Patterns :
                 ( /\ Registered(p)
                   /\ app[p].when = "online"
                   /\ routes[p] = LoopVarRoute
                   /\ MatchingRoutes(out.topic) = {p} )
                 => out.calls[app[p].h] = 1)

\* The goroutine stands where its call reads, writes, iterates or replaces
\* the subscription map.
MapAccess(g) ==
    goPc[g] \in {"Subscribe:held", "Unsubscribe:map", "Close:map", "resubscribe:held"}

\* C28: a goroutine that reads, writes, iterates or replaces the subscription
\* map holds updateMutex, and no two goroutines are at the map at a time.
C28_RegistryExclusive ==
    /\ \A g \in Goroutines : MapAccess(g) => updateMutex = g
    /\ \A g1, g2 \in Goroutines : (MapAccess(g1) /\ MapAccess(g2)) => g1 = g2

\* C29: no call is made on the connection handle after Close has cleared
\* it: a Publish, Subscribe or Unsubscribe that found the handle present, and
\* the replay, find it present when they call it.
C29_NoUseAfterClear ==
    out.op = "UseHandle" => (~out.cleared /\ ~crashed)

\* C30: once a Close that ran during Connect's retry loop has cleared the
\* handle, the loop makes no further pass on the cleared handle and nothing
\* fails; and a closed client is not connected.
C30_CloseDuringConnect ==
    /\ [][ (connPc = "loop" /\ pahoClient = "nil") =>
             (out'.op # "ConnectAttempt" /\ ~crashed') ]_vars
    /\ [](~isRunning => connStatus # "connected")

\* C31: Connect returns nil only on success: for every timeout set through
\* SetTimeout (0 and negative values included), a Connect that returns nil
\* has had its handshake accepted and the client is connected, and a Connect
\* that returns without an accepted handshake returns the error of its last
\* attempt.
C31_NilOnlyOnSuccess ==
    /\ (out.op = "ConnectAttempt" /\ ~out.panic /\ out.returned) =>
           (out.result = "nil" /\ connStatus = "connected")
    /\ out.op = "ConnectReturn" =>
           (out.result = "error" /\ out.k > 0)

\* C32: handler failures are isolated: when the callback of one subscription
\* panics on a message, the process goes on (later messages can be
\* delivered), and every call the callbacks of the matching subscriptions
\* make for that message has been made.
C32_HandlerFailuresIsolated ==
    (hubOut.op = "Receive" /\ hubOut.panic) =>
        /\ ~crashed
        /\ \A s \in hubSubs :
              TopicMatches(s.topic, hubOut.topic) =>
                \A c \in AdapterCalls(s, hubOut.topic, hubOut.payload) :
                    [sub |-> s, call |-> c] \in hubOut.calls

\* C33: for every message kind, a Publish operation of the hub client whose
\* document cannot be serialized returns the serialization error and
\* publishes nothing; any other returns exactly what the client's Publish
\* returns for the message.
C33_SerializationErrorSurfaced ==
    hubOut.op = "PublishX" =>
        IF MarshalFails(hubOut.doc)
        THEN hubOut.result = "marshal error" /\ ~hubOut.called /\ wire = NoWire
        ELSE /\ hubOut.called
             /\ hubOut.result =
                  (IF hubOut.refused THEN "no connection with server" ELSE "nil")
             /\ (wire # NoWire) = ~hubOut.refused

\* C34: the handler registered with SubscribeToProvisionRequest is invoked
\* for every request published with PublishProvisionRequest(thingID, csr),
\* with the thing ID of the requester and the CSR that was published.
C34_RequestReachesHandler ==
    (hubOut.op = "Receive" /\ hubOut.msgType = "request" /\ hubSubs # {}) =>
        hubOut.calls = {[thingID |-> hubOut.thingID, csrPEM |-> hubOut.bytes]}

\* C35: RequestProvisioning cleans up after itself: whenever it has returned
\* (response, timeout or failed publish) the subscription of the response
\* topic is gone, and its callback never blocks the goroutine that
\* dispatches messages, however many responses arrive.
C35_ProvisioningCleansUp ==
    /\ prov.pc = "returned" => ~prov.routed
    /\ ~prov.blocked

====
